---- MODULE Spec2Model ----
(***************************************************************************)
(* Model of the evaluation harness in evals/index.eval.ts: the plan built  *)
(* by the data callback, the task wrapper around every scenario body, the  *)
(* bounded pool that drains the plan, the exactMatch and errorMatch        *)
(* scorers, the summary file, and the workflow step that reads it.         *)
(***************************************************************************)
EXTENDS Integers, Sequences, FiniteSets, TLC

VARIABLES env, ciEnv, filter, faults, budget, plan, inv, results, runState, file, scoreArgs, scoreRes,
          logs, writes, gate

vars ==
  <<env, ciEnv, filter, faults, budget, plan, inv, results, runState, file, scoreArgs, scoreRes,
    logs, writes, gate>>

(***************************************************************************)
(* Bounds.  The source runs with maxConcurrency 20 and trialCount 5; the   *)
(* model keeps the two options but scales their values down.               *)
(***************************************************************************)
maxConcurrency == 2

trialCount == 2

(***************************************************************************)
(* Configuration and registry.                                             *)
(***************************************************************************)
Envs == {"BROWSERBASE", "LOCAL"}

models == <<"gpt-4o", "claude-3-5-sonnet-20241022">>

tasks ==
  {"vanta", "vanta_h", "peeler_simple", "peeler_complex", "wikipedia",
   "simple_google_search", "extract_github_stars",
   "extract_collaborators_from_github_repository",
   "extract_last_twenty_github_commits", "costar", "google_jobs", "homedepot",
   "extract_partners", "laroche_form", "arxiv", "expedia",
   "amazon_add_to_cart", "extract_press_releases"}

testcases(e) ==
  <<"vanta", "vanta_h">>
  \o (IF e = "BROWSERBASE" THEN <<>> ELSE <<"peeler_simple">>)
  \o <<"wikipedia", "peeler_complex", "simple_google_search",
       "extract_github_stars", "extract_collaborators_from_github_repository",
       "extract_last_twenty_github_commits", "google_jobs", "homedepot",
       "extract_partners", "laroche_form", "arxiv", "amazon_add_to_cart",
       "extract_press_releases">>

Range(s) == {s[i] : i \in DOMAIN s}

RECURSIVE FlatMap(_, _)
\* models.flatMap(model => testcases.flatMap(test => item)): model-major order.
FlatMap(ms, ts) ==
  IF ms = <<>> THEN <<>>
  ELSE [i \in DOMAIN ts |->
          [input |-> [name |-> ts[i], modelName |-> Head(ms)],
           name |-> ts[i],
           tags |-> <<Head(ms), ts[i]>>,
           metadata |-> [model |-> Head(ms), test |-> ts[i]]]]
       \o FlatMap(Tail(ms), ts)

(***************************************************************************)
(* CI_EVALS is either unset or a comma separated string; an entry of the   *)
(* string is a name with or without surrounding blanks.                    *)
(***************************************************************************)
Trim(tok) == tok.text

\* process.env.CI_EVALS?.split(",").map((e) => e.trim())
ciEvals(c) ==
  IF c.set THEN [defined |-> TRUE, list |-> [i \in DOMAIN c.raw |-> Trim(c.raw[i])]]
  ELSE [defined |-> FALSE, list |-> <<>>]

\* process.argv.slice(2)[0]: "undefined" stands for a missing argument.
NoArg == "undefined"

Truthy(str) == str # NoArg /\ str # ""

allTestcases(e) == FlatMap(models, testcases(e))

\* FilterCi that ignores the allow-list.
FilterCiOff(items, c) == items

\* FilterCi that falls back to the whole list when nothing matches.
FilterCiFallback(items, c) ==
  IF ciEvals(c).defined /\ Len(ciEvals(c).list) > 0
     /\ SelectSeq(items, LAMBDA t : t.name \in Range(ciEvals(c).list)) # <<>>
  THEN SelectSeq(items, LAMBDA t : t.name \in Range(ciEvals(c).list))
  ELSE items

\* if (ciEvals && ciEvals.length > 0) filter on ciEvals.includes(testcase.name)
FilterCi(items, c) ==
  IF ciEvals(c).defined /\ Len(ciEvals(c).list) > 0
  THEN SelectSeq(items, LAMBDA t : t.name \in Range(ciEvals(c).list))
  ELSE items

\* FilterName that searches the unfiltered list again.
FilterNameFresh(items, f) ==
  IF Truthy(f)
  THEN SelectSeq(allTestcases(env), LAMBDA t : t.name = f \/ t.input.name = f)
  ELSE items

\* if (filter) filter on testcase.name === filter || testcase.input.name === filter
FilterName(items, f) ==
  IF Truthy(f)
  THEN SelectSeq(items, LAMBDA t : t.name = f \/ t.input.name = f)
  ELSE items

\* The data callback.
data(e, c, f) == FilterName(FilterCi(allTestcases(e), c), f)

(***************************************************************************)
(* JavaScript values.  A primitive is a type and a printed value; an       *)
(* object has an identity (ref) and the two fields the harness reads.      *)
(***************************************************************************)
Prim(t, v) == [t |-> t, v |-> v]

Undefined == Prim("undefined", "undefined")

Null == Prim("null", "null")

True == Prim("boolean", "true")

False == Prim("boolean", "false")

Str(s) == Prim("string", s)

Num(n) == Prim("number", n)

EmptyObject == Prim("object", "{}")

MsgStackObject == Prim("object", "{message,stack}")

Val(p) == [t |-> p.t, v |-> p.v, ref |-> 0, _success |-> Undefined, error |-> Undefined]

Obj(r, s, e) == [t |-> "object", v |-> "", ref |-> r, _success |-> s, error |-> e]

\* a === b
StrictEq(a, b) ==
  /\ a.t = b.t
  /\ IF a.t = "object" THEN a.ref = b.ref
     ELSE IF a.t = "number" /\ (a.v = "NaN" \/ b.v = "NaN") THEN FALSE
     ELSE a.v = b.v

\* p == true for a field value p: true, 1 and "1" convert to the number 1.
LooseEqTrue(p) ==
  \/ p = True
  \/ p = Num("1")
  \/ p = Str("1")

\* !!p
ToBoolean(p) ==
  ~ \/ p.t \in {"undefined", "null"}
    \/ p = False
    \/ p \in {Num("0"), Num("NaN"), Str("")}

\* output?._success ?? true: a missing flag read as success.
OptSuccessDefaultTrue(o) ==
  IF o.t = "object" /\ o._success # Undefined THEN o._success ELSE True

\* output?._success and output?.error
OptSuccess(o) == IF o.t = "object" THEN o._success ELSE Undefined

OptError(o) == IF o.t = "object" THEN o.error ELSE Undefined

\* exactMatch with === in place of == on the success flag.
exactMatchStrict(args) ==
  LET expected == IF args.expected.t \in {"undefined", "null"}
                  THEN Val(True) ELSE args.expected
  IN  IF StrictEq(expected, Val(True))
      THEN [name |-> "Exact match",
            score |-> IF StrictEq(args.output, Val(True))
                         \/ OptSuccess(args.output) = True THEN 1 ELSE 0]
      ELSE [name |-> "Exact match",
            score |-> IF StrictEq(args.output, expected) THEN 1 ELSE 0]

\* exactMatch that looks at the output alone and not at its success flag.
exactMatchOutputOnly(args) ==
  LET expected == IF args.expected.t \in {"undefined", "null"}
                  THEN Val(True) ELSE args.expected
  IN  IF StrictEq(expected, Val(True))
      THEN [name |-> "Exact match",
            score |-> IF StrictEq(args.output, Val(True)) THEN 1 ELSE 0]
      ELSE [name |-> "Exact match",
            score |-> IF StrictEq(args.output, expected) THEN 1 ELSE 0]

exactMatch(args) ==
  LET expected == IF args.expected.t \in {"undefined", "null"}
                  THEN Val(True) ELSE args.expected
  IN  IF StrictEq(expected, Val(True))
      THEN [name |-> "Exact match",
            score |-> IF StrictEq(args.output, Val(True))
                         \/ LooseEqTrue(OptSuccess(args.output)) THEN 1 ELSE 0]
      ELSE [name |-> "Exact match",
            score |-> IF StrictEq(args.output, expected) THEN 1 ELSE 0]

\* errorMatch that counts an error only on a record that did not succeed.
errorMatchOnFailure(args) ==
  [name |-> "Error rate",
   score |-> IF OptError(args.output) # Undefined
                /\ ~LooseEqTrue(OptSuccess(args.output)) THEN 1 ELSE 0]

\* score: args.output?.error !== undefined ? 1 : 0
errorMatch(args) ==
  [name |-> "Error rate",
   score |-> IF OptError(args.output) # Undefined THEN 1 ELSE 0]

(***************************************************************************)
(* Values a scenario body, the automation engine or the runtime can throw: *)
(* an Error object (message and stack are own, non-enumerable), a plain    *)
(* object with enumerable message and stack, a string, null, undefined,    *)
(* and an object that refers to itself.                                    *)
(***************************************************************************)
Thrown == {"Error", "Obj", "Str", "Null", "Undef", "Circ"}

\* Reading a property of null or undefined throws a TypeError.
CanRead(v) == v \notin {"Null", "Undef"}

\* error.message
Message(v) == IF v \in {"Error", "Obj"} THEN Str("msg") ELSE Undefined

\* error.stack
Stack(v) == IF v \in {"Error", "Obj"} THEN Str("trace") ELSE Undefined

\* JSON.stringify(error, null, 2): the text, undefined, or a TypeError.
JSONStringify(v) ==
  CASE v = "Error" -> [threw |-> FALSE, text |-> "{}"]
    [] v = "Obj"   -> [threw |-> FALSE, text |-> "{message,stack}"]
    [] v = "Str"   -> [threw |-> FALSE, text |-> "\"msg\""]
    [] v = "Null"  -> [threw |-> FALSE, text |-> "null"]
    [] v = "Undef" -> [threw |-> FALSE, text |-> "undefined"]
    [] v = "Circ"  -> [threw |-> TRUE, text |-> ""]

\* JSON.parse(text): the text "undefined" is not JSON and raises a SyntaxError.
JSONParse(text) ==
  CASE text = "{}"              -> [threw |-> FALSE, val |-> EmptyObject]
    [] text = "{message,stack}" -> [threw |-> FALSE, val |-> MsgStackObject]
    [] text = "\"msg\""         -> [threw |-> FALSE, val |-> Str("msg")]
    [] text = "null"            -> [threw |-> FALSE, val |-> Null]
    [] OTHER                    -> [threw |-> TRUE, val |-> Undefined]

\* JSON.parse(JSON.stringify(error, null, 2))
RoundTrip(v) ==
  IF JSONStringify(v).threw THEN [threw |-> TRUE, val |-> Undefined]
  ELSE JSONParse(JSONStringify(v).text)

(***************************************************************************)
(* Shape of the scenario bodies.                                           *)
(***************************************************************************)
\* Bodies without try/catch: every awaited step is outside any handler.
NoTry ==
  {"vanta", "vanta_h", "simple_google_search", "peeler_simple", "wikipedia",
   "amazon_add_to_cart"}

\* Bodies with try/catch that close the context inside both blocks.
InlineCatch ==
  {"extract_github_stars", "extract_collaborators_from_github_repository",
   "extract_last_twenty_github_commits"}

\* Bodies with try/catch/finally that close the context in the finally block.
WithFinally ==
  {"expedia", "peeler_complex", "homedepot", "costar", "google_jobs",
   "extract_partners", "laroche_form", "arxiv", "extract_press_releases"}

\* Bodies whose close is written context.close().catch(() => {}).
Swallows ==
  InlineCatch \cup
  {"wikipedia", "expedia", "homedepot", "extract_partners", "laroche_form",
   "arxiv", "extract_press_releases"}

\* Catch blocks that pass JSON.stringify(error) to the logger.
CatchStringifies == {"expedia", "peeler_complex"}

\* Records a body can return from its straight-line code.
Returns(name) ==
  {[_success |-> True, error |-> Undefined],
   [_success |-> False, error |-> Undefined]}
  \cup (IF name \in {"arxiv", "extract_press_releases"}
        THEN {[_success |-> False, error |-> Str("literal")]} ELSE {})

Settled(k, r, v) == [kind |-> k, rec |-> r, val |-> v]

NoRec == [_success |-> Undefined, error |-> Undefined]

Return(r) == Settled("return", r, "none")

Throw(v) == Settled("throw", NoRec, v)

Pending == Settled("none", NoRec, "none")

\* The record r returned by the catch block that caught v.
Handled(r, v) == Settled("return", r, v)

\* The catch block of a scenario body, run on the caught value v.
CatchBlock(name, v) ==
  IF name \in InlineCatch
  THEN IF RoundTrip(v).threw THEN Throw("Error")
       ELSE Handled([_success |-> False, error |-> RoundTrip(v).val], v)
  ELSE IF name \in CatchStringifies /\ JSONStringify(v).threw THEN Throw("Error")
  ELSE IF ~CanRead(v) THEN Throw("Error")
  ELSE IF name = "extract_press_releases" /\ ~ToBoolean(Message(v))
          /\ JSONStringify(v).threw THEN Throw("Error")
  ELSE CASE name \in {"costar", "arxiv"} ->
              Handled([_success |-> False, error |-> Undefined], v)
         [] name = "laroche_form" ->
              Handled([_success |-> False, error |-> Message(v)], v)
         [] name = "extract_press_releases" ->
              Handled([_success |-> False, error |-> Str("literal")], v)
         [] OTHER ->
              IF RoundTrip(v).threw THEN Throw("Error")
              ELSE Handled([_success |-> False, error |-> RoundTrip(v).val], v)

(***************************************************************************)
(* The task wrapper (the task option of Eval).  s is how the scenario body *)
(* settled; i identifies the object the wrapper or the body returns.       *)
(***************************************************************************)
Outcome(th, o, c, rp) == [threw |-> th, output |-> o, caught |-> c, report |-> rp]

\* if (result && result._success) "Passed" else "Failed"; the catch branch
\* prints "Error" before anything else.
Report(rec) == IF ToBoolean(rec._success) THEN "Passed" ELSE "Failed"

\* The wrapper with a catch branch that returns _success true with the error.
taskCatchSucceeds(i, s) ==
  IF s.kind = "return"
  THEN Outcome(FALSE, Obj(i, s.rec._success, s.rec.error), "none", Report(s.rec))
  ELSE IF ~CanRead(s.val) THEN Outcome(TRUE, Val(Undefined), s.val, "Error")
  ELSE IF RoundTrip(s.val).threw THEN Outcome(TRUE, Val(Undefined), s.val, "Error")
  ELSE Outcome(FALSE, Obj(i, True, RoundTrip(s.val).val), s.val, "Error")

task(i, s) ==
  IF s.kind = "return"
  THEN Outcome(FALSE, Obj(i, s.rec._success, s.rec.error), "none", Report(s.rec))
  ELSE IF ~CanRead(s.val) THEN Outcome(TRUE, Val(Undefined), s.val, "Error")
  ELSE IF RoundTrip(s.val).threw THEN Outcome(TRUE, Val(Undefined), s.val, "Error")
  ELSE Outcome(FALSE, Obj(i, False, RoundTrip(s.val).val), s.val, "Error")

(***************************************************************************)
(* Eval: the plan is expanded trialCount times per item and drained by a   *)
(* pool of maxConcurrency invocations; the result of an invocation is      *)
(* recorded whether the task returned or threw.                            *)
(***************************************************************************)
\* Eval that rejects as soon as a task throws: the top-level catch exits.
AfterTaskAbort(t) == IF t.threw THEN "exit1" ELSE "running"

\* Eval goes on draining the queue whether a task returned or threw.
AfterTask(t) == "running"

\* The maxConcurrency option left out: Eval starts every item at once.
PoolUnbounded == Len(inv) + 1

\* The maxConcurrency option handed to Eval.
PoolBound == maxConcurrency

NoResult ==
  [done |-> FALSE, threw |-> FALSE, output |-> Val(Undefined), report |-> "",
   logs |-> {}]

\* lg is the logs field of the returned record: logger.getLogs().
EvalRecord(t, lg) ==
  [done |-> TRUE, threw |-> t.threw, output |-> t.output, report |-> t.report,
   logs |-> IF t.threw THEN {} ELSE lg]

Queued(item, trial) ==
  [input |-> item.input, trial |-> trial, pc |-> "queued", ctx |-> "none",
   pend |-> Pending, settled |-> Pending, caught |-> "none", logger |-> 0]

\* for each datum, for each trial: one invocation
Expand(items, n) ==
  [k \in 1..(Len(items) * n) |->
     Queued(items[((k - 1) \div n) + 1], (k - 1) % n)]

InFlightPcs == {"init", "steps", "close", "finally"}

\* A pool that never gives a slot back.
InFlightNeverFreed == {i \in DOMAIN inv : inv[i].pc # "queued"}

InFlight == {i \in DOMAIN inv : inv[i].pc \in InFlightPcs}

AllDone == \A i \in DOMAIN inv : inv[i].pc = "done"

(***************************************************************************)
(* Loggers.  A logger is known by the order of its creation, 0 standing    *)
(* for none yet; logs[l] holds the invocations that wrote into logger l.   *)
(***************************************************************************)
\* const logger = new EvalLogger(): an object that did not exist before.
NewLogger == 1 + Cardinality({j \in DOMAIN inv : inv[j].logger # 0})

\* A logger kept per (scenario, model) pair and handed to each of its trials.
LoggerPerPair(i) ==
  LET mine == {inv[j].logger :
                 j \in {j \in DOMAIN inv : /\ inv[j].input = inv[i].input
                                           /\ inv[j].logger # 0}}
  IN  IF mine = {} THEN NewLogger ELSE CHOOSE l \in mine : TRUE

\* The logger of invocation i, made when the wrapper is entered.
Logger(i) == IF inv[i].logger = 0 THEN NewLogger ELSE inv[i].logger

\* Invocation i writes into its logger.
Log(i) == logs' = [logs EXCEPT ![Logger(i)] = @ \cup {i}]

\* Settle that puts an invocation without success back on the queue.
SettleRetry(i, s, c) ==
  /\ inv' = [inv EXCEPT ![i] =
               [@ EXCEPT !.pc = IF task(i, s).output._success = True
                                THEN "done" ELSE "queued",
                         !.ctx = c, !.pend = Pending,
                         !.settled = s, !.caught = task(i, s).caught,
                         !.logger = Logger(i)]]
  /\ Log(i)
  /\ results' = [results EXCEPT ![i] = EvalRecord(task(i, s), logs'[Logger(i)])]
  /\ runState' = IF runState = "call" THEN "call" ELSE AfterTask(task(i, s))

\* The body of invocation i settles with s: the wrapper turns it into its
\* own outcome and Eval records it.
Settle(i, s, c) ==
  /\ inv' = [inv EXCEPT ![i] =
               [@ EXCEPT !.pc = "done", !.ctx = c, !.pend = Pending,
                         !.settled = s, !.caught = task(i, s).caught,
                         !.logger = Logger(i)]]
  /\ Log(i)
  /\ results' = [results EXCEPT ![i] = EvalRecord(task(i, s), logs'[Logger(i)])]
  /\ runState' = IF runState = "call" THEN "call" ELSE AfterTask(task(i, s))

\* The close awaited in a finally block rejects with w: the rejection takes
\* the place of the outcome the body had reached, which stays in pend.
Discard(i, w) ==
  /\ inv' = [inv EXCEPT ![i] =
               [@ EXCEPT !.pc = "done", !.ctx = "closed",
                         !.settled = Throw(w),
                         !.caught = task(i, Throw(w)).caught,
                         !.logger = Logger(i)]]
  /\ Log(i)
  /\ results' = [results EXCEPT ![i] =
                   EvalRecord(task(i, Throw(w)), logs'[Logger(i)])]
  /\ runState' = IF runState = "call" THEN "call"
                 ELSE AfterTask(task(i, Throw(w)))

Move(i, p, c, pd) ==
  /\ inv' = [inv EXCEPT ![i] =
               [@ EXCEPT !.pc = p, !.ctx = c, !.pend = pd, !.logger = Logger(i)]]
  /\ Log(i)
  /\ UNCHANGED <<results, runState>>

\* The automation engine raises v: one of the faults the run may still see.
Fault(v) == v \in faults /\ budget > 0 /\ budget' = budget - 1

NoFault == budget' = budget

Data ==
  /\ runState = "start"
  /\ plan' = data(env, ciEnv, filter)
  /\ inv' = Expand(plan', trialCount)
  /\ results' = [k \in DOMAIN inv' |-> NoResult]
  /\ logs' = [k \in DOMAIN inv' |-> {}]
  /\ runState' = "running"
  /\ UNCHANGED <<env, ciEnv, filter, faults, budget, file, scoreArgs, scoreRes, writes, gate>>

Frame == UNCHANGED <<env, ciEnv, filter, faults, plan, file, scoreArgs, scoreRes, writes, gate>>

Live == runState \in {"running", "call"}

\* A free slot takes the next queued invocation: the wrapper makes its
\* logger and calls tasks[input.name], which is not a function for a name
\* missing from the registry.
Start(i) ==
  /\ Live
  /\ inv[i].pc = "queued"
  /\ \A j \in DOMAIN inv : j < i => inv[j].pc # "queued"
  /\ Cardinality(InFlight) < PoolBound
  /\ IF inv[i].input.name \in tasks
     THEN Move(i, "init", "none", Pending)
     ELSE Settle(i, Throw("Error"), "none")
  /\ NoFault
  /\ Frame

\* await initStagehand(...)
InitStagehand(i) ==
  /\ Live
  /\ inv[i].pc = "init"
  /\ \/ Move(i, "steps", "open", Pending) /\ NoFault
     \/ \E v \in Thrown : Fault(v) /\ Settle(i, Throw(v), "none")
  /\ Frame

\* The awaited navigation, act, observe and extract steps up to the
\* return statement, the explicit throw of peeler_simple included.
Steps(i) ==
  LET name == inv[i].input.name
      Raise(v) ==
        IF name \in NoTry THEN Settle(i, Throw(v), "open")
        ELSE IF name \in InlineCatch THEN Move(i, "close", "open", CatchBlock(name, v))
        ELSE Move(i, "finally", "open", CatchBlock(name, v))
  IN  /\ Live
      /\ inv[i].pc = "steps"
      /\ IF name = "peeler_simple" /\ env = "BROWSERBASE"
         THEN Raise("Error") /\ NoFault
         ELSE \/ /\ \E r \in Returns(name) :
                      IF name \in WithFinally \ {"costar"}
                      THEN Move(i, "finally", "open", Return(r))
                      ELSE Move(i, "close", "open", Return(r))
                 /\ NoFault
              \/ \E v \in Thrown : Fault(v) /\ Raise(v)
      /\ Frame

\* await stagehand.context.close() written in line (not in a finally block)
Close(i) ==
  LET name == inv[i].input.name
  IN  /\ Live
      /\ inv[i].pc = "close"
      /\ \/ /\ IF name = "costar"
               THEN Move(i, "finally", "closed", inv[i].pend)
               ELSE Settle(i, inv[i].pend, "closed")
            /\ NoFault
         \/ \E w \in Thrown :
              /\ Fault(w)
              /\ IF name \in Swallows THEN Settle(i, inv[i].pend, "closed")
                 ELSE IF name = "costar"
                 THEN Move(i, "finally", "closed", CatchBlock(name, w))
                 ELSE Settle(i, Throw(w), "closed")
      /\ Frame

\* finally { await stagehand.context.close() }
Finally(i) ==
  LET name == inv[i].input.name
  IN  /\ Live
      /\ inv[i].pc = "finally"
      /\ \/ Settle(i, inv[i].pend, "closed") /\ NoFault
         \/ \E w \in Thrown :
              /\ Fault(w)
              /\ IF name \in Swallows THEN Settle(i, inv[i].pend, "closed")
                 ELSE Discard(i, w)
      /\ Frame

(***************************************************************************)
(* End of the run: Eval resolves with the results and the mean of every    *)
(* score; generateSummary formats and writes eval-summary.json.            *)
(***************************************************************************)
RECURSIVE SumScores(_, _)
SumScores(rs, k) ==
  IF k = 0 THEN 0
  ELSE SumScores(rs, k - 1)
       + exactMatch([output |-> rs[k].output, expected |-> Val(Undefined)]).score

\* evalResult.summary.scores["Exact match"]: absent when nothing was scored,
\* otherwise the mean score, kept as the fraction num / den.
EvalSummary(rs) ==
  IF Len(rs) = 0 THEN [scored |-> FALSE, num |-> 0, den |-> 1]
  ELSE [scored |-> TRUE, num |-> SumScores(rs, Len(rs)), den |-> Len(rs)]

Indices(n) == [k \in 1..n |-> k]

\* generateSummary whose passedTasks filter is task.success === true.
generateSummaryStrictPass(summary, rs) ==
  LET taskStatuses ==
        [k \in DOMAIN rs |->
           [name |-> inv[k].input.name, modelName |-> inv[k].input.modelName,
            success |-> IF ToBoolean(OptSuccess(rs[k].output))
                        THEN OptSuccess(rs[k].output) ELSE False]]
      Entry(k) == [name |-> taskStatuses[k].name,
                   modelName |-> taskStatuses[k].modelName]
      passed == SelectSeq(Indices(Len(rs)), LAMBDA k : taskStatuses[k].success = True)
      failed == SelectSeq(Indices(Len(rs)), LAMBDA k : ~ToBoolean(taskStatuses[k].success))
  IN  [exists |-> TRUE, text |-> "json",
       exactMatchScore |->
         IF summary.scored
         THEN [null |-> FALSE, num |-> summary.num * 100, den |-> summary.den]
         ELSE [null |-> TRUE, num |-> 0, den |-> 1],
       totalTasks |-> Len(rs),
       passedTasks |-> [k \in DOMAIN passed |-> Entry(passed[k])],
       failedTasks |-> [k \in DOMAIN failed |-> Entry(failed[k])]]

\* generateSummary whose percentage is exactMatch.score ? score * 100 : null.
generateSummaryFalsyNull(summary, rs) ==
  LET taskStatuses ==
        [k \in DOMAIN rs |->
           [name |-> inv[k].input.name, modelName |-> inv[k].input.modelName,
            success |-> IF ToBoolean(OptSuccess(rs[k].output))
                        THEN OptSuccess(rs[k].output) ELSE False]]
      Entry(k) == [name |-> taskStatuses[k].name,
                   modelName |-> taskStatuses[k].modelName]
      passed == SelectSeq(Indices(Len(rs)), LAMBDA k : ToBoolean(taskStatuses[k].success))
      failed == SelectSeq(Indices(Len(rs)), LAMBDA k : ~ToBoolean(taskStatuses[k].success))
  IN  [exists |-> TRUE, text |-> "json",
       exactMatchScore |->
         IF summary.scored /\ summary.num # 0
         THEN [null |-> FALSE, num |-> summary.num * 100, den |-> summary.den]
         ELSE [null |-> TRUE, num |-> 0, den |-> 1],
       totalTasks |-> Len(rs),
       passedTasks |-> [k \in DOMAIN passed |-> Entry(passed[k])],
       failedTasks |-> [k \in DOMAIN failed |-> Entry(failed[k])]]

generateSummary(summary, rs) ==
  LET taskStatuses ==
        [k \in DOMAIN rs |->
           [name |-> inv[k].input.name, modelName |-> inv[k].input.modelName,
            success |-> IF ToBoolean(OptSuccess(rs[k].output))
                        THEN OptSuccess(rs[k].output) ELSE False]]
      Entry(k) == [name |-> taskStatuses[k].name,
                   modelName |-> taskStatuses[k].modelName]
      passed == SelectSeq(Indices(Len(rs)), LAMBDA k : ToBoolean(taskStatuses[k].success))
      failed == SelectSeq(Indices(Len(rs)), LAMBDA k : ~ToBoolean(taskStatuses[k].success))
  IN  [exists |-> TRUE, text |-> "json",
       exactMatchScore |->
         IF summary.scored
         THEN [null |-> FALSE, num |-> summary.num * 100, den |-> summary.den]
         ELSE [null |-> TRUE, num |-> 0, den |-> 1],
       totalTasks |-> Len(rs),
       passedTasks |-> [k \in DOMAIN passed |-> Entry(passed[k])],
       failedTasks |-> [k \in DOMAIN failed |-> Entry(failed[k])]]

NoFile ==
  [exists |-> FALSE, text |-> "", exactMatchScore |-> [null |-> TRUE, num |-> 0, den |-> 1],
   totalTasks |-> 0, passedTasks |-> <<>>, failedTasks |-> <<>>]

\* A file opened for writing and left without content.
EmptyFile == [NoFile EXCEPT !.exists = TRUE, !.text = "empty"]

\* A file whose text is not JSON.
GarbageFile == [NoFile EXCEPT !.exists = TRUE, !.text = "garbage"]

\* The summary of a run of n results of which p passed.
GateEntry == [name |-> "vanta", modelName |-> models[1]]

SummaryFile(p, n) ==
  [exists |-> TRUE, text |-> "json",
   exactMatchScore |->
     IF n = 0 THEN [null |-> TRUE, num |-> 0, den |-> 1]
     ELSE [null |-> FALSE, num |-> p * 100, den |-> n],
   totalTasks |-> n,
   passedTasks |-> [k \in 1..p |-> GateEntry],
   failedTasks |-> [k \in 1..(n - p) |-> GateEntry]]

\* eval-summary.json left in the working directory by an earlier run.
StaleFile == SummaryFile(1, 3)

\* A write that adds the text after the text already in the file: two JSON
\* documents one after the other are not JSON.
WriteAppend(old, new) == IF old.exists THEN GarbageFile ELSE new

\* fs.writeFileSync("eval-summary.json", text): the file holds the text.
Write(old, new) == new

\* A top-level catch that logs the error and lets the process end normally.
TopLevelCatchSwallows == "summarised"

\* catch (error) { console.error(...); process.exit(1); }
TopLevelCatch == "exit1"

\* await generateSummary(...) inside the top-level try: a failing
\* writeFileSync reaches the catch and process.exit(1).
Finish ==
  /\ runState = "running"
  /\ AllDone
  /\ \/ /\ file' = Write(file, generateSummary(EvalSummary(results), results))
        /\ writes' = writes + 1
        /\ runState' = "summarised"
     \/ /\ runState' = TopLevelCatch
        /\ UNCHANGED <<file, writes>>
  /\ UNCHANGED <<env, ciEnv, filter, faults, budget, plan, inv, results, scoreArgs, scoreRes, logs, gate>>

(***************************************************************************)
(* The "Check Eval Results" step of the workflow, run by bash -e: the      *)
(* step ends with the status of the first command that fails outside a     *)
(* condition.  jq fails on text that is not JSON and prints nothing for a  *)
(* file without any text; bc reads the word null as a variable of value 0  *)
(* and prints nothing on standard output for an expression without a left  *)
(* operand; (( )) around nothing is false.                                 *)
(***************************************************************************)
\* if (( $(echo "$exact_match_score < 85" | bc -l) ))
Threshold == 85

\* The gate step has not run.
NotRun == -1

\* A step that compares only a percentage that is a number.
GateNullPasses(f) ==
  IF ~f.exists THEN 1
  ELSE IF f.text = "garbage" THEN 2
  ELSE IF f.text = "empty" THEN 0
  ELSE IF f.exactMatchScore.null THEN 0
  ELSE IF f.exactMatchScore.num < Threshold * f.exactMatchScore.den THEN 1
  ELSE 0

\* Exit status of the step on the artifact f.
Gate(f) ==
  IF ~f.exists THEN 1
  ELSE IF f.text = "garbage" THEN 2
  ELSE IF f.text = "empty" THEN 0
  ELSE IF f.exactMatchScore.null THEN 1
  ELSE IF f.exactMatchScore.num < Threshold * f.exactMatchScore.den THEN 1
  ELSE 0

GateStep ==
  /\ runState \in {"gate", "summarised"}
  /\ gate = NotRun
  /\ gate' = Gate(file)
  /\ UNCHANGED <<env, ciEnv, filter, faults, budget, plan, inv, results, runState, file, scoreArgs,
                 scoreRes, logs, writes>>

\* await Eval(...) rejects, before the first item is taken or after the last
\* has ended: the top-level catch ends the process.
Abort ==
  /\ \/ runState = "start"
     \/ runState = "running" /\ AllDone
  /\ runState' = TopLevelCatch
  /\ UNCHANGED <<env, ciEnv, filter, faults, budget, plan, inv, results, file, scoreArgs,
                 scoreRes, logs, writes, gate>>

\* One call of the exactMatch scorer.
Score ==
  /\ runState = "score"
  /\ scoreRes.score = -1
  /\ scoreRes' = exactMatch(scoreArgs)
  /\ UNCHANGED <<env, ciEnv, filter, faults, budget, plan, inv, results, runState, file, scoreArgs,
                 logs, writes, gate>>

\* One call of the errorMatch scorer.
ErrorScore ==
  /\ runState = "scoreError"
  /\ scoreRes.score = -1
  /\ scoreRes' = errorMatch(scoreArgs)
  /\ UNCHANGED <<env, ciEnv, filter, faults, budget, plan, inv, results, runState, file, scoreArgs,
                 logs, writes, gate>>

(***************************************************************************)
(* Inputs.                                                                 *)
(***************************************************************************)
Tok(p, n) == [pad |-> p, text |-> n]

Unset == [set |-> FALSE, raw |-> <<>>]

CiString(toks) == [set |-> TRUE, raw |-> toks]

\* The CI_EVALS value of the workflow.
WorkflowCiEvals ==
  CiString(<<Tok(FALSE, "vanta"), Tok(FALSE, "extract_github_stars"),
             Tok(FALSE, "extract_collaborators_from_github_repository"),
             Tok(FALSE, "wikipedia"), Tok(FALSE, "peeler_complex"),
             Tok(FALSE, "simple_google_search"),
             Tok(FALSE, "extract_last_twenty_github_commits"),
             Tok(FALSE, "laroche_form")>>)

CiChoices ==
  {Unset, WorkflowCiEvals,
   CiString(<<Tok(FALSE, "")>>),
   CiString(<<Tok(TRUE, "vanta")>>),
   CiString(<<Tok(FALSE, "vanta"), Tok(TRUE, "vanta")>>),
   CiString(<<Tok(FALSE, "nope")>>),
   CiString(<<Tok(FALSE, "nope"), Tok(TRUE, "arxiv")>>),
   CiString(<<Tok(FALSE, "costar"), Tok(FALSE, "expedia")>>),
   CiString(<<Tok(TRUE, "peeler_simple"), Tok(FALSE, "arxiv")>>)}

FilterChoices ==
  {NoArg, "", "vanta", "arxiv", "peeler_simple", "peeler_complex",
   "extract_github_stars", "laroche_form", "costar", "nope"}

NoScore == [name |-> "", score |-> -1]

NoArgs == [output |-> Val(Undefined), expected |-> Val(Undefined)]

\* Largest plan the run specification schedules.
MaxPlan == 2

\* Runs the scheduler is explored on: environment, CI_EVALS, command-line
\* argument, the values the automation engine throws in that run, and the
\* summary file found in the working directory.
RunConfigs ==
  {<<"LOCAL", Unset, "vanta", {"Undef"}, NoFile>>,
   <<"BROWSERBASE", WorkflowCiEvals, "peeler_complex", {"Error"}, StaleFile>>,
   <<"BROWSERBASE", WorkflowCiEvals, "arxiv", {"Error"}, NoFile>>,
   <<"LOCAL", Unset, "nope", {"Error"}, StaleFile>>}

\* Most faults the automation engine raises in one run.
MaxFaults == 1

\* Most faults one scenario body can meet: one in the try block or the
\* in-line close, one in the finally block.
CallFaults == 2

Init ==
  /\ \E cfg \in RunConfigs :
       /\ env = cfg[1] /\ ciEnv = cfg[2] /\ filter = cfg[3] /\ faults = cfg[4]
       /\ file = cfg[5]
  /\ Len(data(env, ciEnv, filter)) <= MaxPlan
  /\ budget = MaxFaults
  /\ plan = <<>>
  /\ inv = <<>>
  /\ results = <<>>
  /\ runState = "start"
  /\ scoreArgs = NoArgs
  /\ scoreRes = NoScore
  /\ logs = <<>>
  /\ writes = 0
  /\ gate = NotRun

Next ==
  \/ Data
  \/ \E i \in DOMAIN inv : Start(i)
  \/ \E i \in DOMAIN inv : InitStagehand(i)
  \/ \E i \in DOMAIN inv : Steps(i)
  \/ \E i \in DOMAIN inv : Close(i)
  \/ \E i \in DOMAIN inv : Finally(i)
  \/ Finish
  \/ Abort

Spec == Init /\ [][Next]_vars

(***************************************************************************)
(* One call of the task wrapper on an arbitrary input, registered or not.  *)
(***************************************************************************)
Item(n, m) ==
  [input |-> [name |-> n, modelName |-> m], name |-> n, tags |-> <<m, n>>,
   metadata |-> [model |-> m, test |-> n]]

InitCall ==
  /\ env \in Envs
  /\ ciEnv = Unset
  /\ filter = NoArg
  /\ faults = Thrown
  /\ budget = CallFaults
  /\ \E n \in tasks \cup {"nope"}, m \in Range(models) :
       /\ plan = <<Item(n, m)>>
       /\ inv = <<Queued(Item(n, m), 0)>>
  /\ results = <<NoResult>>
  /\ runState = "call"
  /\ file = NoFile
  /\ scoreArgs = NoArgs
  /\ scoreRes = NoScore
  /\ logs = <<{}>>
  /\ writes = 0
  /\ gate = NotRun

NextCall ==
  \/ \E i \in DOMAIN inv : Start(i)
  \/ \E i \in DOMAIN inv : InitStagehand(i)
  \/ \E i \in DOMAIN inv : Steps(i)
  \/ \E i \in DOMAIN inv : Close(i)
  \/ \E i \in DOMAIN inv : Finally(i)

SpecCall == InitCall /\ [][NextCall]_vars

(***************************************************************************)
(* A run of one work item: any registered scenario, any value thrown by    *)
(* the automation engine, and the summary written at the end.              *)
(***************************************************************************)
InitItem ==
  /\ env \in Envs
  /\ ciEnv = Unset
  /\ filter = NoArg
  /\ faults = Thrown
  /\ budget = CallFaults
  /\ \E n \in tasks, m \in Range(models) :
       /\ plan = <<Item(n, m)>>
       /\ inv = <<Queued(Item(n, m), 0)>>
  /\ results = <<NoResult>>
  /\ runState = "running"
  /\ file = NoFile
  /\ scoreArgs = NoArgs
  /\ scoreRes = NoScore
  /\ logs = <<{}>>
  /\ writes = 0
  /\ gate = NotRun

NextItem ==
  \/ \E i \in DOMAIN inv : Start(i)
  \/ \E i \in DOMAIN inv : InitStagehand(i)
  \/ \E i \in DOMAIN inv : Steps(i)
  \/ \E i \in DOMAIN inv : Close(i)
  \/ \E i \in DOMAIN inv : Finally(i)
  \/ Finish

SpecItem == InitItem /\ [][NextItem]_vars

(***************************************************************************)
(* The pipeline of the workflow, the run and then the gate step, without   *)
(* engine faults: on every combination of the inputs that leaves the plan  *)
(* empty and on the inputs of RunConfigs.                                  *)
(***************************************************************************)
PipelineConfigs ==
  {cfg \in Envs \X CiChoices \X FilterChoices :
     \/ data(cfg[1], cfg[2], cfg[3]) = <<>>
     \/ \E rc \in RunConfigs : <<rc[1], rc[2], rc[3]>> = cfg}

InitPipeline ==
  /\ \E cfg \in PipelineConfigs :
       env = cfg[1] /\ ciEnv = cfg[2] /\ filter = cfg[3]
  /\ faults = {}
  /\ budget = 0
  /\ plan = <<>>
  /\ inv = <<>>
  /\ results = <<>>
  /\ runState = "start"
  /\ file \in {NoFile, StaleFile}
  /\ scoreArgs = NoArgs
  /\ scoreRes = NoScore
  /\ logs = <<>>
  /\ writes = 0
  /\ gate = NotRun

NextPipeline ==
  \/ Data
  \/ \E i \in DOMAIN inv : Start(i)
  \/ \E i \in DOMAIN inv : InitStagehand(i)
  \/ \E i \in DOMAIN inv : Steps(i)
  \/ \E i \in DOMAIN inv : Close(i)
  \/ \E i \in DOMAIN inv : Finally(i)
  \/ Finish
  \/ Abort
  \/ GateStep

SpecPipeline == InitPipeline /\ [][NextPipeline]_vars

(***************************************************************************)
(* The data callback alone, on every combination of the inputs.            *)
(***************************************************************************)
InitPlan ==
  /\ env \in Envs
  /\ ciEnv \in CiChoices
  /\ filter \in FilterChoices
  /\ faults = {}
  /\ budget = 0
  /\ plan = <<>>
  /\ inv = <<>>
  /\ results = <<>>
  /\ runState = "start"
  /\ file = NoFile
  /\ scoreArgs = NoArgs
  /\ scoreRes = NoScore
  /\ logs = <<>>
  /\ writes = 0
  /\ gate = NotRun

NextPlan == Data

SpecPlan == InitPlan /\ [][NextPlan]_vars

(***************************************************************************)
(* The exactMatch scorer alone.                                            *)
(***************************************************************************)
FieldVals == {Undefined, Null, True, False, Num("1"), Num("0"), Str("1"), Str("x")}

ErrorVals == {Undefined, Str("msg"), EmptyObject}

Refs == {1, 2}

Outputs ==
  {Val(p) : p \in {Undefined, Null, True, False, Str("x"), Str("y"),
                   Num("1"), Num("NaN")}}
  \cup {Obj(r, sc, e) : r \in Refs, sc \in FieldVals, e \in ErrorVals}

\* Two objects with the same identity are the same object.
ScoreInputs ==
  {a \in [output : Outputs, expected : Outputs] :
     (a.output.t = "object" /\ a.expected.t = "object"
        /\ a.output.ref = a.expected.ref) => a.output = a.expected}

InitScore ==
  /\ env = "LOCAL"
  /\ ciEnv = Unset
  /\ filter = NoArg
  /\ faults = {}
  /\ budget = 0
  /\ plan = <<>>
  /\ inv = <<>>
  /\ results = <<>>
  /\ runState = "score"
  /\ file = NoFile
  /\ scoreArgs \in ScoreInputs
  /\ scoreRes = NoScore
  /\ logs = <<>>
  /\ writes = 0
  /\ gate = NotRun

NextScore == Score

SpecScore == InitScore /\ [][NextScore]_vars

(***************************************************************************)
(* The errorMatch scorer alone: the error field also takes the values      *)
(* null, false and the empty string, which are defined but falsy.          *)
(***************************************************************************)
ErrorFieldVals == ErrorVals \cup {Null, False, Str("")}

ErrorOutputs ==
  {Val(p) : p \in {Undefined, Null, True, False, Str("x"), Num("1")}}
  \cup {Obj(1, sc, e) : sc \in FieldVals, e \in ErrorFieldVals}

ErrorInputs ==
  [output : ErrorOutputs, expected : {Val(Undefined), Val(True), Val(Str("x"))}]

InitError ==
  /\ env = "LOCAL"
  /\ ciEnv = Unset
  /\ filter = NoArg
  /\ faults = {}
  /\ budget = 0
  /\ plan = <<>>
  /\ inv = <<>>
  /\ results = <<>>
  /\ runState = "scoreError"
  /\ file = NoFile
  /\ scoreArgs \in ErrorInputs
  /\ scoreRes = NoScore
  /\ logs = <<>>
  /\ writes = 0
  /\ gate = NotRun

NextError == ErrorScore

SpecError == InitError /\ [][NextError]_vars

(***************************************************************************)
(* generateSummary alone, on every short list of results: each result is   *)
(* what the task wrapper hands to Eval for a body that returned a record   *)
(* (the success flag of any type, or absent) or that threw.                *)
(***************************************************************************)
\* Longest list of results the summary is built from.
MaxResults == 2

SummaryFlags == {Undefined, Null, True, False, Num("1"), Str("x")}

Settlements ==
  {Return([_success |-> f, error |-> e]) :
     f \in SummaryFlags, e \in {Undefined, Str("msg")}}
  \cup {Throw(v) : v \in {"Error", "Undef"}}

SummaryItems == {Item("vanta", models[1]), Item("arxiv", models[2])}

\* Invocation k of item it, ended with the settlement s of its body.
Ended(k, it, s) ==
  [Queued(it, 0) EXCEPT !.pc = "done", !.ctx = "closed", !.settled = s,
                        !.caught = task(k, s).caught, !.logger = k]

InitSummary ==
  /\ env = "LOCAL"
  /\ ciEnv = Unset
  /\ filter = NoArg
  /\ faults = {}
  /\ budget = 0
  /\ \E n \in 0..MaxResults :
       \E its \in [1..n -> SummaryItems], ss \in [1..n -> Settlements] :
         /\ plan = [k \in 1..n |-> its[k]]
         /\ inv = [k \in 1..n |-> Ended(k, its[k], ss[k])]
         /\ results = [k \in 1..n |-> EvalRecord(task(k, ss[k]), {k})]
  /\ runState = "running"
  /\ file = NoFile
  /\ scoreArgs = NoArgs
  /\ scoreRes = NoScore
  /\ logs = [k \in DOMAIN inv |-> {k}]
  /\ writes = 0
  /\ gate = NotRun

NextSummary == Finish

SpecSummary == InitSummary /\ [][NextSummary]_vars

(***************************************************************************)
(* The gate step alone, on the artifacts it can find in the workspace: no  *)
(* file, a file without text, a file that is not JSON, and the summary of  *)
(* a run of n results of which p passed.                                   *)
(***************************************************************************)
\* Most results in a summary handed to the gate.
GateTasks == 20

Artifacts ==
  {NoFile, EmptyFile, GarbageFile}
  \cup {SummaryFile(pn[1], pn[2]) :
          pn \in {q \in (0..GateTasks) \X (0..GateTasks) : q[1] <= q[2]}}

InitGate ==
  /\ env = "BROWSERBASE"
  /\ ciEnv = WorkflowCiEvals
  /\ filter = NoArg
  /\ faults = {}
  /\ budget = 0
  /\ plan = <<>>
  /\ inv = <<>>
  /\ results = <<>>
  /\ runState = "gate"
  /\ file \in Artifacts
  /\ scoreArgs = NoArgs
  /\ scoreRes = NoScore
  /\ logs = <<>>
  /\ writes = 0
  /\ gate = NotRun

NextGate == GateStep

SpecGate == InitGate /\ [][NextGate]_vars

(***************************************************************************)
(* The scheduled run under weak fairness of its steps, on the plans whose  *)
(* scenario body has no try block (and on the empty plan): every await of  *)
(* a started invocation eventually settles, resolved or rejected, and Eval  *)
(* itself does not reject.                                                 *)
(***************************************************************************)
FairConfigs == {cfg \in RunConfigs : cfg[3] \in {"vanta", "nope"}}

InitFair ==
  /\ Init
  /\ <<env, ciEnv, filter, faults, file>> \in FairConfigs

NextFair ==
  \/ Data
  \/ \E i \in DOMAIN inv : Start(i)
  \/ \E i \in DOMAIN inv : InitStagehand(i)
  \/ \E i \in DOMAIN inv : Steps(i)
  \/ \E i \in DOMAIN inv : Close(i)
  \/ Finish

FairSpec == InitFair /\ [][NextFair]_vars /\ WF_vars(NextFair)

(***************************************************************************)
(* Properties.                                                             *)
(***************************************************************************)
Done(i) == inv[i].pc = "done"

\* C1: every call of the task wrapper ends with exactly one outcome record
\* and no error leaves the wrapper, whatever the body throws and whether or
\* not the name is registered.
C1_OneOutcomeNoThrow ==
  \A i \in DOMAIN inv :
    Done(i) => /\ results[i].done
               /\ ~results[i].threw
               /\ results[i].output.t = "object"

\* C2: a scenario body that throws changes neither the state nor the result
\* of any other invocation nor the state of the run, and a run that ends has
\* a result for every invocation, each returned record being the body's own.
C2_FailureIsolation ==
  /\ [][\A i \in DOMAIN inv :
          (~Done(i) /\ inv'[i].pc = "done" /\ inv'[i].settled.kind = "throw")
          => /\ runState' = runState
             /\ \A j \in DOMAIN inv \ {i} :
                  inv'[j] = inv[j] /\ results'[j] = results[j]]_vars
  /\ [](runState = "summarised" =>
         /\ file.totalTasks = Len(inv)
         /\ \A j \in DOMAIN inv :
              /\ results[j].done
              /\ inv[j].settled.kind = "return" =>
                   results[j].output
                     = Obj(j, inv[j].settled.rec._success, inv[j].settled.rec.error))

C2_Witness ==
  \E i, j, k \in DOMAIN inv :
    /\ Done(i) /\ inv[i].settled.kind = "throw"
    /\ Done(j) /\ inv[j].settled.kind = "return"
    /\ results[j].output._success = True
    /\ inv[k].pc \in InFlightPcs

\* C3: the number of invocations that are running or suspended never
\* exceeds the pool bound.
C3_PoolBoundRespected == Cardinality(InFlight) <= maxConcurrency

C3_Witness ==
  /\ Cardinality(InFlight) = maxConcurrency
  /\ \E i \in DOMAIN inv : inv[i].pc = "queued"

\* C4: an invocation leaves the queue only while fewer than maxConcurrency
\* invocations are in flight, and every run reaches its end with one result
\* for each of the Len(plan) * trialCount invocations.
C4_WaitsThenDrains ==
  /\ [][\A i \in DOMAIN inv :
          (inv[i].pc = "queued" /\ inv'[i].pc # "queued")
          => Cardinality(InFlight) < maxConcurrency]_vars
  /\ <>(/\ runState \in {"summarised", "exit1"}
         /\ Len(results) = Len(plan) * trialCount
         /\ \A i \in DOMAIN inv : Done(i) /\ results[i].done)

C4_Witness ==
  /\ runState = "summarised"
  /\ Len(inv) > maxConcurrency
  /\ \A i \in DOMAIN inv : Done(i) /\ results[i].done

\* C5: a record the wrapper builds for a caught fault has the success flag
\* false and an error field holding the fault's message and trace.
C5_ErrorCarriesFault ==
  \A i \in DOMAIN inv :
    (Done(i) /\ inv[i].caught # "none" /\ ~results[i].threw)
    => /\ results[i].output._success = False
       /\ Message(inv[i].caught) # Undefined
            => results[i].output.error = MsgStackObject

\* C6: an invocation that acquired a browser context has closed it when
\* it ends, on every path.
C6_ContextClosed ==
  \A i \in DOMAIN inv :
    (Done(i) /\ inv[i].ctx # "none") => inv[i].ctx = "closed"

AllowNames(c) == {c.raw[k].text : k \in DOMAIN c.raw}

\* The enabled scenarios the allow-list lets through; all when it is unset.
Allowed(e, c) ==
  IF c.set THEN Range(testcases(e)) \cap AllowNames(c) ELSE Range(testcases(e))

C8_FiltersIntersect ==
  runState = "running" =>
    /\ Range(plan) \subseteq Range(allTestcases(env))
    /\ \A k \in DOMAIN plan :
         /\ ciEnv.set => plan[k].name \in AllowNames(ciEnv)
         /\ Truthy(filter) => plan[k].name = filter
    /\ plan = FilterCi(FilterName(allTestcases(env), filter), ciEnv)

C8_Witness ==
  /\ runState = "running"
  /\ ciEnv.set
  /\ Truthy(filter)
  /\ plan # <<>>
  /\ Len(plan) < Len(FilterCi(allTestcases(env), ciEnv))

\* C9: an override that names no item, or an allow-list without any
\* registered name, gives the empty plan and the run goes on.
C9_UnknownGivesEmptyPlan ==
  (/\ runState # "start"
   /\ \/ /\ Truthy(filter)
         /\ \A k \in DOMAIN allTestcases(env) :
              /\ allTestcases(env)[k].name # filter
              /\ allTestcases(env)[k].input.name # filter
      \/ /\ ciEnv.set
         /\ AllowNames(ciEnv) \cap tasks = {})
  => plan = <<>> /\ runState = "running"

C9_Witness ==
  /\ runState = "running"
  /\ ciEnv.set
  /\ AllowNames(ciEnv) \cap tasks = {}
  /\ ~Truthy(filter)
  /\ plan = <<>>

Scored == scoreRes.score # -1

\* C10: the claim as written: expected true or not given compares the
\* output or its success flag with true, any other expected value is
\* compared strictly with the output.
C10_AsWritten ==
  Scored =>
    scoreRes.score =
      IF \/ /\ scoreArgs.expected \in {Val(True), Val(Undefined)}
            /\ \/ scoreArgs.output = Val(True)
               \/ OptSuccess(scoreArgs.output) = True
         \/ /\ scoreArgs.expected # Val(True)
            /\ StrictEq(scoreArgs.output, scoreArgs.expected)
      THEN 1 ELSE 0

\* C10 (amended): expected true, null or not given compares the output with
\* true or its success flag loosely with true (true, 1, "1"); any other
\* expected value is compared strictly with the output.
C10_ExactMatch ==
  LET o == scoreArgs.output
      e == scoreArgs.expected
      defaulted == e.t \in {"undefined", "null"} \/ (e.t = "boolean" /\ e.v = "true")
      same == /\ o.t = e.t
              /\ \/ o.t = "object" /\ o.ref = e.ref
                 \/ o.t # "object" /\ o.v = e.v /\ o.v # "NaN"
  IN  Scored =>
        /\ scoreRes.name = "Exact match"
        /\ scoreRes.score \in {0, 1}
        /\ scoreRes.score = 1 <=>
             IF defaulted
             THEN \/ o.t = "boolean" /\ o.v = "true"
                  \/ o.t = "object" /\ o._success \in {True, Num("1"), Str("1")}
             ELSE same
        /\ (o.t = "object" /\ o._success = True /\ e = Val(Undefined))
             => scoreRes.score = 1
        /\ (o.t = "object" /\ o._success = False /\ e = Val(Undefined))
             => scoreRes.score = 0
        /\ (o = Val(True) /\ e = Val(True)) => scoreRes.score = 1
        /\ (o = Val(Str("x")) /\ e = Val(Str("y"))) => scoreRes.score = 0

C10_Witness ==
  /\ Scored
  /\ scoreArgs.output = Val(Null)
  /\ scoreArgs.expected = Val(Null)
  /\ scoreRes.score = 0

ErrorScored == runState = "scoreError" /\ scoreRes.score # -1

\* C11: errorMatch scores 1 exactly when the output is a record whose error
\* field is not undefined (null, false and "" included) and 0 otherwise, a
\* null or undefined output included; the score is the same whatever the
\* success flag and whatever exactMatch scores on the same arguments.
C11_ErrorMatch ==
  LET o == scoreArgs.output
  IN  ErrorScored =>
        /\ scoreRes.name = "Error rate"
        /\ scoreRes.score \in {0, 1}
        /\ scoreRes.score = 1 <=> (o.t = "object" /\ o.error.t # "undefined")
        /\ o.t \in {"undefined", "null"} => scoreRes.score = 0
        /\ o.t = "object" =>
             \A sc \in FieldVals :
               errorMatch([scoreArgs EXCEPT !.output._success = sc]).score
                 = scoreRes.score

C11_Witness ==
  /\ ErrorScored
  /\ scoreArgs.output.t = "object"
  /\ scoreArgs.output._success = True
  /\ scoreArgs.output.error = Null
  /\ exactMatch(scoreArgs).score = 1
  /\ scoreRes.score = 1

Count(seq, e) == Cardinality({k \in DOMAIN seq : seq[k] = e})

EntryOf(k) == [name |-> inv[k].input.name, modelName |-> inv[k].input.modelName]

\* The result has no output, or an output without a success flag.
Absent(k) ==
  \/ results[k].output.t # "object"
  \/ results[k].output._success.t = "undefined"

\* C12: a result without a success flag, or without an output, scores 0 on
\* exactMatch, is reported as not passed by the wrapper, and is counted in
\* failedTasks and not in passedTasks.
C12_AbsentIsFailure ==
  runState = "summarised" =>
    /\ \A k \in DOMAIN results :
         Absent(k) =>
           /\ exactMatch([output |-> results[k].output,
                          expected |-> Val(Undefined)]).score = 0
           /\ results[k].report # "Passed"
    /\ \A e \in {EntryOf(k) : k \in DOMAIN results} :
         /\ Count(file.failedTasks, e)
              >= Cardinality({k \in DOMAIN results : EntryOf(k) = e /\ Absent(k)})
         /\ Count(file.passedTasks, e)
              <= Cardinality({k \in DOMAIN results : EntryOf(k) = e /\ ~Absent(k)})

C12_Witness ==
  /\ runState = "summarised"
  /\ \E j, k \in DOMAIN results :
       /\ results[j].output.t = "object" /\ Absent(j)
       /\ results[k].output.t = "undefined"
  /\ file.passedTasks = <<>>
  /\ Len(file.failedTasks) = Len(results)

\* C13: the summary counts every result once: totalTasks is the number of
\* results and the sum of the two lists, and each (scenario, model) entry
\* appears in the two lists together as often as it appears in the results.
C13_Partition ==
  runState = "summarised" =>
    /\ file.totalTasks = Len(results)
    /\ file.totalTasks = Len(file.passedTasks) + Len(file.failedTasks)
    /\ Range(file.passedTasks) \cup Range(file.failedTasks)
         \subseteq {EntryOf(k) : k \in DOMAIN results}
    /\ \A e \in {EntryOf(k) : k \in DOMAIN results} :
         Count(file.passedTasks, e) + Count(file.failedTasks, e)
           = Cardinality({k \in DOMAIN results : EntryOf(k) = e})

C13_Witness ==
  /\ runState = "summarised"
  /\ \E j, k \in DOMAIN results :
       /\ EntryOf(j) = EntryOf(k)
       /\ results[j].output._success = Str("x")
       /\ results[k].output._success = False
  /\ Len(file.passedTasks) = 1
  /\ Len(file.failedTasks) = 1

\* C14: the written percentage is 100 times the mean exactMatch score of the
\* results, between 0 and 100, 0 when no result scores, and null exactly
\* when there is no result to score.
C14_Percentage ==
  LET n == Len(results)
      ones == Cardinality({k \in DOMAIN results :
                exactMatch([output |-> results[k].output,
                            expected |-> Val(Undefined)]).score = 1})
      pct == file.exactMatchScore
  IN  runState = "summarised" =>
        /\ pct.null <=> n = 0
        /\ n > 0 => /\ pct.num * n = 100 * ones * pct.den
                    /\ pct.den > 0
                    /\ 0 <= pct.num /\ pct.num <= 100 * pct.den

C14_Witness ==
  /\ runState = "summarised"
  /\ Len(results) > 0
  /\ \A k \in DOMAIN results : results[k].output._success # True
  /\ ~file.exactMatchScore.null
  /\ file.exactMatchScore.num = 0

\* C15: the gate step exits with 0 exactly when the artifact exists, is
\* JSON and holds a percentage of at least 85; it exits with another status
\* when the file is missing, is not JSON, or holds less than 85.
C15_GateVerdict ==
  gate # NotRun =>
    (gate = 0 <=> /\ file.exists
                  /\ file.text = "json"
                  /\ ~file.exactMatchScore.null
                  /\ file.exactMatchScore.num >= 85 * file.exactMatchScore.den)

Failed(i) == results[i].done /\ results[i].output._success # True

\* C16: an invocation that left the queue never returns to it and an ended
\* invocation keeps its state and its record; every item of the plan has
\* exactly trialCount invocations, and an ended invocation that failed has
\* its own record among the results.
C16_NoRetry ==
  /\ [][\A i \in DOMAIN inv :
          /\ inv[i].pc # "queued" => inv'[i].pc # "queued"
          /\ Done(i) => /\ inv'[i] = inv[i]
                         /\ results'[i] = results[i]]_vars
  /\ [](runState # "start" =>
         /\ Len(inv) = Len(plan) * trialCount
         /\ \A k \in DOMAIN plan :
              Cardinality({i \in DOMAIN inv : inv[i].input = plan[k].input})
                = trialCount
         /\ \A i \in DOMAIN inv :
              Done(i) => /\ results[i].done
                         /\ inv[i].settled.kind = "throw" => Failed(i))

C16_Witness ==
  /\ runState = "summarised"
  /\ \E i, j \in DOMAIN inv :
       /\ inv[i].input = inv[j].input
       /\ inv[i].trial < inv[j].trial
       /\ inv[i].settled.kind = "throw" /\ Failed(i)
       /\ results[j].output._success = True
       /\ EntryOf(i) \in Range(file.failedTasks)
       /\ EntryOf(j) \in Range(file.passedTasks)

\* C17: two invocations never hold the same logger, a logger holds entries
\* of the one invocation it was made for, and the logs of a record are
\* entries of the invocation that returned it.
C17_FreshLogger ==
  /\ \A i, j \in DOMAIN inv :
       (i # j /\ inv[i].logger # 0) => inv[i].logger # inv[j].logger
  /\ \A l \in DOMAIN logs :
       \A i \in logs[l] : inv[i].logger = l
  /\ \A i \in DOMAIN results : results[i].logs \subseteq {i}

C17_Witness ==
  \E i, j, k \in DOMAIN inv :
    /\ inv[i].input = inv[j].input /\ i # j
    /\ Done(i) /\ results[i].logs = {i} /\ inv[i].settled.kind = "throw"
    /\ Done(j) /\ results[j].logs = {j} /\ inv[j].settled.kind = "return"
    /\ inv[k].pc = "steps" /\ logs[inv[k].logger] = {k}

RunEnded == runState \in {"summarised", "exit1"}

C19_FatalExits ==
  /\ [][runState # "exit1"]_vars
  /\ [][runState' = "exit1" =>
          /\ inv' = inv /\ results' = results /\ plan' = plan
          /\ file' = file /\ writes' = writes]_vars
  /\ [][(runState' # "exit1" /\ runState \in {"start", "running"})
          => runState' \in {"running", "summarised"}]_vars
  /\ [](runState = "summarised" => AllDone /\ file.exists /\ writes = 1)

C19_Witness ==
  /\ runState = "exit1"
  /\ Len(results) > 0
  /\ \A i \in DOMAIN inv : Done(i) /\ results[i].done
  /\ writes = 0
  /\ file = StaleFile

\* The body of invocation i returned from its own catch block.
BodyCaught(i) ==
  Done(i) /\ inv[i].settled.kind = "return" /\ inv[i].settled.val # "none"

\* C20: a record returned by the catch block of a scenario body has the
\* success flag false and an error field that is not undefined, so that
\* errorMatch scores it 1.
C20_CatchPopulatesError ==
  \A i \in DOMAIN inv :
    BodyCaught(i) =>
      /\ results[i].output._success = False
      /\ results[i].output.error # Undefined
      /\ errorMatch([output |-> results[i].output,
                     expected |-> Val(Undefined)]).score = 1

ScoresOne(k) ==
  exactMatch([output |-> results[k].output, expected |-> Val(Undefined)]).score = 1

\* C21: in the summary of a run every (scenario, model) entry is listed in
\* passedTasks as often as it has results that exactMatch scores 1, and a
\* percentage that is not null is 100 * Len(passedTasks) / totalTasks.
C21_ScoreAgreesWithPassed ==
  runState = "summarised" =>
    /\ \A e \in {EntryOf(k) : k \in DOMAIN results} :
         Count(file.passedTasks, e)
           = Cardinality({k \in DOMAIN results : EntryOf(k) = e /\ ScoresOne(k)})
    /\ ~file.exactMatchScore.null =>
         file.exactMatchScore.num * file.totalTasks
           = 100 * Len(file.passedTasks) * file.exactMatchScore.den

C21_Witness ==
  /\ runState = "summarised"
  /\ \E k \in DOMAIN results :
       /\ inv[k].input.name = "google_jobs"
       /\ results[k].output._success = True
       /\ ScoresOne(k)
  /\ Len(file.passedTasks) = 1
  /\ file.exactMatchScore.num = 100 * file.exactMatchScore.den

\* C22: a run whose plan is empty ends with a summary of 0 tasks, two empty
\* lists and a null percentage, whatever the file held before, and the gate
\* step does not exit with 0 on it; the gate never exits with 0 on a null
\* percentage.
C22_EmptyPlanFailsGate ==
  /\ (runState = "summarised" /\ plan = <<>>) =>
       /\ file.exists /\ file.text = "json"
       /\ file.totalTasks = 0
       /\ file.passedTasks = <<>> /\ file.failedTasks = <<>>
       /\ file.exactMatchScore.null
       /\ gate \in {NotRun, 1}
  /\ gate = 0 => ~file.exactMatchScore.null

C22_Witness ==
  /\ runState = "summarised"
  /\ Truthy(filter) /\ ciEnv.set
  /\ plan = <<>>
  /\ file.exactMatchScore.null
  /\ gate = 1

\* The close in the finally block of invocation i rejected.
Discarded(i) ==
  /\ Done(i)
  /\ inv[i].input.name \in WithFinally \ Swallows
  /\ inv[i].pend.kind # "none"

\* C23: when the close in a finally block without a handler rejects, the
\* result of the invocation is the wrapper's record, with the success flag
\* false and an error field, whatever the body had reached, and the item is
\* listed in failedTasks and not in passedTasks.
C23_FailingCloseDiscards ==
  \A i \in DOMAIN inv :
    Discarded(i) =>
      /\ inv[i].settled.kind = "throw"
      /\ ~results[i].threw
      /\ results[i].output.t = "object"
      /\ results[i].output._success = False
      /\ results[i].output.error # Undefined
      /\ runState = "summarised" =>
           /\ EntryOf(i) \in Range(file.failedTasks)
           /\ EntryOf(i) \notin Range(file.passedTasks)

\* errorMatch scores the result 1.
ErrsOne(k) ==
  errorMatch([output |-> results[k].output, expected |-> Val(Undefined)]).score = 1

\* C24: a record returned by a scenario body or by the wrapper with an error
\* field that is not undefined has the success flag false, and no result
\* scores 1 on both exactMatch and errorMatch.
C24_ErrorMeansFailure ==
  \A k \in DOMAIN results :
    Done(k) =>
      /\ (results[k].output.t = "object" /\ results[k].output.error # Undefined)
           => results[k].output._success = False
      /\ ~(ScoresOne(k) /\ ErrsOne(k))

\* The wrapper built the record of a summarised run from a value it caught:
\* errorMatch scores it 1 and exactMatch scores it 0.
C24_Witness ==
  \E k \in DOMAIN results :
    /\ Done(k) /\ runState = "summarised"
    /\ inv[k].settled.kind = "throw"
    /\ results[k].output.t = "object"
    /\ results[k].output.error # Undefined
    /\ ErrsOne(k) /\ ~ScoresOne(k)

====
